---- MODULE Spec2Model ----
(***************************************************************************)
(* Model of src/app.py: the indicator pipeline, the per-bar signal engine  *)
(* and the position sizer of the TQQQ trading app.                         *)
(*                                                                         *)
(* Floats are modelled as exact rationals [k, n, d] with k one of "num",   *)
(* "inf", "nan"; rounding is not modelled.  Row index i of the code is     *)
(* 0-based, the sequences here are 1-based: price.iloc[i] is price[i+1].   *)
(***************************************************************************)
EXTENDS Integers, Sequences, FiniteSets, TLC

VARIABLES
    pc,             \* position of the script: "indicators", "trend", "setup", "scan", "done", "error"
    price,          \* the traded series' DataFrame: a sequence of rows (records)
    qqq,            \* the benchmark DataFrame: a sequence of rows
    i,              \* loop index of the signal engine (0-based, as in the code)
    in_pos,         \* position flag
    entry, stop, target, trail,   \* position levels
    account_size, risk_per_trade, \* the sidebar inputs of the sizer
    shares          \* the sizer's result

vars == <<pc, price, qqq, i, in_pos, entry, stop, target, trail,
          account_size, risk_per_trade, shares>>

(***************************************************************************)
(* Bounds of the model.  The window lengths are scaled down from the       *)
(* slider ranges so that windows fill within MaxBars bars.                 *)
(***************************************************************************)
MaxBars == 6
short_ma == 2
long_ma == 4
rsi_period == 1
atr_period == 2
TrendWindow == 2

(* Strategy parameters: values inside the ranges of their sliders.         *)
rsi_buy == 30
rsi_sell == 70
volatility_filter == 80

(***************************************************************************)
(* Float values                                                            *)
(***************************************************************************)
NaN == [k |-> "nan", n |-> 0, d |-> 1]
Inf == [k |-> "inf", n |-> 1, d |-> 1]
Num(a, b) == [k |-> "num", n |-> a, d |-> b]
Int2F(a) == Num(a, 1)
IsNum(x) == x.k = "num"
IsNaN(x) == x.k = "nan"

\* comparisons: any comparison with NaN is False
Gt(a, b) == IsNum(a) /\ IsNum(b) /\ a.n * b.d > b.n * a.d
Lt(a, b) == Gt(b, a)
Ge(a, b) == IsNum(a) /\ IsNum(b) /\ a.n * b.d >= b.n * a.d
Le(a, b) == Ge(b, a)
Eq(a, b) == IsNum(a) /\ IsNum(b) /\ a.n * b.d = b.n * a.d

Sub(a, b) == IF IsNum(a) /\ IsNum(b) THEN Num(a.n * b.d - b.n * a.d, a.d * b.d) ELSE NaN
Add(a, b) == IF IsNum(a) /\ IsNum(b) THEN Num(a.n * b.d + b.n * a.d, a.d * b.d) ELSE NaN
Scale(m, a) == IF IsNum(a) THEN Num(m * a.n, a.d) ELSE NaN
Mul(a, b) == IF IsNum(a) /\ IsNum(b) THEN Num(a.n * b.n, a.d * b.d) ELSE NaN
\* a / b for non-negative a, b: x/0 is inf, 0/0 is NaN
Div(a, b) ==
    IF ~(IsNum(a) /\ IsNum(b)) THEN NaN
    ELSE IF b.n = 0 THEN (IF a.n = 0 THEN NaN ELSE Inf)
    ELSE Num(a.n * b.d, a.d * b.n)

\* the ATR multipliers of the stop, the target and the trailing stop: 0.5, 1.0
\* and 1.5, inside the ranges of their sliders
stop_atr == Num(1, 2)
target_atr == Num(1, 1)
trail_atr == Num(3, 2)

\* Python's max(a, b): b replaces a only when b > a
PyMax(a, b) == IF Gt(b, a) THEN b ELSE a

\* truth value of a Trend_OK cell: "True", "False" or "NaN" (a float NaN is truthy)
Truthy(v) == v # "False"

(***************************************************************************)
(* Series helpers (pandas operations on a column, as sequences of floats)  *)
(***************************************************************************)
RECURSIVE SumF(_, _, _)
SumF(s, lo, hi) == IF lo > hi THEN Int2F(0) ELSE Add(s[lo], SumF(s, lo + 1, hi))

\* Series.rolling(w).mean(): NaN until the window holds w defined observations
Rolling(s, w) ==
    [j \in 1..Len(s) |->
        IF j < w THEN NaN
        ELSE LET t == SumF(s, j - w + 1, j)
             IN IF IsNum(t) THEN Num(t.n, t.d * w) ELSE NaN]

\* Series.diff(): the first element is NaN
Diff(s) == [j \in 1..Len(s) |-> IF j = 1 THEN NaN ELSE Sub(s[j], s[j - 1])]
\* Series.shift(): the first element is NaN
Shift(s) == [j \in 1..Len(s) |-> IF j = 1 THEN NaN ELSE s[j - 1]]

ClipLower0(x) == IF IsNum(x) /\ x.n < 0 THEN Int2F(0) ELSE x
ClipUpper0(x) == IF IsNum(x) /\ x.n > 0 THEN Int2F(0) ELSE x
Neg(x) == IF IsNum(x) THEN Num(0 - x.n, x.d) ELSE x
Abs(x) == IF IsNum(x) /\ x.n < 0 THEN Num(0 - x.n, x.d) ELSE x

\* DataFrame.max(axis=1) over two cells: NaN cells are skipped
MaxSkip(a, b) == IF IsNaN(a) THEN b ELSE IF IsNaN(b) THEN a ELSE IF Gt(b, a) THEN b ELSE a

\* Series.rank(pct=True) * 100: average rank among the defined values of the
\* WHOLE series, divided by their count; NaN stays NaN
RankPct(s) ==
    [j \in 1..Len(s) |->
        IF IsNaN(s[j]) THEN NaN
        ELSE LET less == Cardinality({m \in 1..Len(s) : Lt(s[m], s[j])})
                 same == Cardinality({m \in 1..Len(s) : Eq(s[m], s[j])})
                 cnt  == Cardinality({m \in 1..Len(s) : IsNum(s[m])})
             IN Num(100 * (2 * less + same + 1), 2 * cnt)]

\* 100 - (100 / (1 + rs))
RSIof(rs) ==
    IF IsNaN(rs) THEN NaN
    ELSE IF rs.k = "inf" THEN Int2F(100)
    ELSE Sub(Int2F(100), Div(Int2F(100), Add(Int2F(1), rs)))

ColF(df, name) == [j \in 1..Len(df) |-> Int2F(df[j][name])]

(***************************************************************************)
(* INDICATORS (src/app.py 124-142)                                         *)
(***************************************************************************)
\* gain = delta.clip(lower=0), loss = -delta.clip(upper=0)
Gain(delta) == [j \in 1..Len(delta) |-> ClipLower0(delta[j])]
Loss(delta) == [j \in 1..Len(delta) |-> Neg(ClipUpper0(delta[j]))]
\* rs = avg_gain / avg_loss; RSI = 100 - (100 / (1 + rs))
RSI_col(avg_gain, avg_loss) ==
    [j \in 1..Len(avg_gain) |-> RSIof(Div(avg_gain[j], avg_loss[j]))]

\* tr = max(high - low, |high - prev close|, |low - prev close|), NaN skipped
TR_col(df, prev) ==
    [j \in 1..Len(df) |->
        LET hl == Int2F(df[j].High - df[j].Low)
            hc == Abs(Sub(Int2F(df[j].High), prev[j]))
            lc == Abs(Sub(Int2F(df[j].Low), prev[j]))
        IN MaxSkip(MaxSkip(hl, hc), lc)]

\* a row of price once the columns SMA_S, SMA_L, RSI, ATR, ATR_pct are assigned
WithIndicators(r, sS, sL, rsi, atr, pct) ==
    [Date |-> r.Date, Close |-> r.Close, High |-> r.High, Low |-> r.Low,
     SMA_S |-> sS, SMA_L |-> sL, RSI |-> rsi, ATR |-> atr, ATR_pct |-> pct]

\* the bound names are the script's intermediate series
Indicators ==
    /\ pc = "indicators"
    /\ \E close \in {ColF(price, "Close")} :
       \E delta \in {Diff(close)} :
       \E avg_gain \in {Rolling(Gain(delta), rsi_period)} :
       \E avg_loss \in {Rolling(Loss(delta), rsi_period)} :
       \E tr \in {TR_col(price, Shift(close))} :
       \E atr \in {Rolling(tr, atr_period)} :
       \E sS \in {Rolling(close, short_ma)}, sL \in {Rolling(close, long_ma)},
          rsi \in {RSI_col(avg_gain, avg_loss)}, pct \in {RankPct(atr)} :
          price' = [j \in 1..Len(price) |->
                      WithIndicators(price[j], sS[j], sL[j], rsi[j], atr[j], pct[j])]
    /\ pc' = "trend"
    /\ UNCHANGED <<qqq, i, in_pos, entry, stop, target, trail,
                   account_size, risk_per_trade, shares>>

(***************************************************************************)
(* Trend filter (src/app.py 145-146)                                       *)
(***************************************************************************)
SMA_200_col(df) == Rolling(ColF(df, "Close"), TrendWindow)

\* the cell of price["Trend_OK"] at date dt once the comparison, indexed by the
\* benchmark's dates, is aligned to the index of price: a date the benchmark
\* lacks gets NaN
TrendCell(bench, dt) ==
    IF \E m \in 1..Len(bench) : bench[m].Date = dt
    THEN LET m == CHOOSE m \in 1..Len(bench) : bench[m].Date = dt
         IN IF Gt(Int2F(bench[m].Close), bench[m].SMA_200) THEN "True" ELSE "False"
    ELSE "NaN"

\* a row of price once the column Trend_OK is assigned
WithTrend(r, t) ==
    [Date |-> r.Date, Close |-> r.Close, High |-> r.High, Low |-> r.Low,
     SMA_S |-> r.SMA_S, SMA_L |-> r.SMA_L, RSI |-> r.RSI, ATR |-> r.ATR,
     ATR_pct |-> r.ATR_pct, Trend_OK |-> t]

TrendFilter ==
    /\ pc = "trend"
    /\ \E sma \in {SMA_200_col(qqq)} :
       \E q2 \in {[m \in 1..Len(qqq) |->
                     [Date |-> qqq[m].Date, Close |-> qqq[m].Close, SMA_200 |-> sma[m]]]} :
          /\ qqq' = q2
          /\ price' = [j \in 1..Len(price) |->
                         WithTrend(price[j], TrendCell(q2, price[j].Date))]
    /\ pc' = "setup"
    /\ UNCHANGED <<i, in_pos, entry, stop, target, trail,
                   account_size, risk_per_trade, shares>>

(***************************************************************************)
(* SIGNAL ENGINE (src/app.py 151-193)                                      *)
(***************************************************************************)
\* a setup whose level columns start at zero
WithSignal_ZeroLevels(r) ==
    [Date |-> r.Date, Close |-> r.Close, High |-> r.High, Low |-> r.Low,
     SMA_S |-> r.SMA_S, SMA_L |-> r.SMA_L, RSI |-> r.RSI, ATR |-> r.ATR,
     ATR_pct |-> r.ATR_pct, Trend_OK |-> r.Trend_OK,
     Signal |-> "CASH", Stop |-> Int2F(0), Target |-> Int2F(0), Trail |-> Int2F(0)]

\* a setup whose default label is "NO TRADE"
WithSignal_NoTrade(r) ==
    [Date |-> r.Date, Close |-> r.Close, High |-> r.High, Low |-> r.Low,
     SMA_S |-> r.SMA_S, SMA_L |-> r.SMA_L, RSI |-> r.RSI, ATR |-> r.ATR,
     ATR_pct |-> r.ATR_pct, Trend_OK |-> r.Trend_OK,
     Signal |-> "NO TRADE", Stop |-> NaN, Target |-> NaN, Trail |-> NaN]

\* a row of price once Signal = "CASH" and Stop, Target, Trail = NaN are assigned
WithSignal(r) ==
    [Date |-> r.Date, Close |-> r.Close, High |-> r.High, Low |-> r.Low,
     SMA_S |-> r.SMA_S, SMA_L |-> r.SMA_L, RSI |-> r.RSI, ATR |-> r.ATR,
     ATR_pct |-> r.ATR_pct, Trend_OK |-> r.Trend_OK,
     Signal |-> "CASH", Stop |-> NaN, Target |-> NaN, Trail |-> NaN]

SignalSetup ==
    /\ pc = "setup"
    /\ price' = [j \in 1..Len(price) |-> WithSignal(price[j])]
    /\ in_pos' = FALSE
    /\ entry' = Int2F(0)
    /\ stop' = Int2F(0)
    /\ target' = Int2F(0)
    /\ trail' = Int2F(0)
    /\ i' = 1
    /\ pc' = "scan"
    /\ UNCHANGED <<qqq, account_size, risk_per_trade, shares>>

\* a scan that takes the exit branch when flat and the entry branch when long
FlatBranch_Inverted(p) == p

\* a scan that takes the entry branch on every bar
FlatBranch_Always(p) == TRUE

\* the branch taken by "if not in_pos"
FlatBranch(p) == ~p

\* the entry condition of lines 163-168
EntryCondition(row) ==
    /\ Gt(row.SMA_S, row.SMA_L)
    /\ Lt(row.RSI, Int2F(rsi_buy))
    /\ Truthy(row.Trend_OK)
    /\ Lt(row.ATR_pct, Int2F(volatility_filter))

EntryPrice(row) == Int2F(row.Close)
InitialStop(row) == Sub(EntryPrice(row), Mul(stop_atr, row.ATR))
\* a target placed at the stop distance
InitialTarget_StopDistance(row) == Add(EntryPrice(row), Mul(stop_atr, row.ATR))
InitialTarget(row) == Add(EntryPrice(row), Mul(target_atr, row.ATR))
\* a trail that starts at zero rather than at the stop
InitialTrail_Zero(st) == Int2F(0)
\* trail = stop
InitialTrail(st) == st

\* lines 182-183
NewTrail(row) == Sub(Int2F(row.Close), Mul(trail_atr, row.ATR))
\* a trail that is tested before the bar's own close raises it
UpdatedTrail_Lagged(t, row) == t
\* a trail that follows the close down as well as up
UpdatedTrail_NoMax(t, row) == NewTrail(row)
UpdatedTrail(t, row) == PyMax(t, NewTrail(row))

\* the exits with the target tested before the trail
ExitLabel_TargetFirst(row, t, tg) ==
    IF Ge(Int2F(row.High), tg) THEN "TAKE PROFIT"
    ELSE IF Le(Int2F(row.Low), t) THEN "TRAIL STOP"
    ELSE IF Lt(row.SMA_S, row.SMA_L) \/ Gt(row.RSI, Int2F(rsi_sell)) THEN "SELL"
    ELSE "NONE"

\* the exits with the reversal tested before the target
ExitLabel_SellFirst(row, t, tg) ==
    IF Le(Int2F(row.Low), t) THEN "TRAIL STOP"
    ELSE IF Lt(row.SMA_S, row.SMA_L) \/ Gt(row.RSI, Int2F(rsi_sell)) THEN "SELL"
    ELSE IF Ge(Int2F(row.High), tg) THEN "TAKE PROFIT"
    ELSE "NONE"

\* lines 185-193: the label of a bar processed in position with trail t (already
\* updated) and target tg; "NONE" when no branch is taken
ExitLabel(row, t, tg) ==
    IF Le(Int2F(row.Low), t) THEN "TRAIL STOP"
    ELSE IF Ge(Int2F(row.High), tg) THEN "TAKE PROFIT"
    ELSE IF Lt(row.SMA_S, row.SMA_L) \/ Gt(row.RSI, Int2F(rsi_sell)) THEN "SELL"
    ELSE "NONE"

\* an iteration that labels the bar and does not advance
ScanBar_NoAdvance ==
    /\ pc = "scan"
    /\ i < Len(price)
    /\ price' = [price EXCEPT ![i + 1].Signal = "NO TRADE"]
    /\ UNCHANGED <<pc, qqq, i, in_pos, entry, stop, target, trail,
                   account_size, risk_per_trade, shares>>

\* one iteration of "for i in range(1, len(price))"
ScanBar ==
    /\ pc = "scan"
    /\ i < Len(price)
    /\ LET row == price[i + 1] IN
       IF FlatBranch(in_pos) THEN
          IF EntryCondition(row) THEN
             /\ entry' = EntryPrice(row)
             /\ stop' = InitialStop(row)
             /\ target' = InitialTarget(row)
             /\ trail' = InitialTrail(InitialStop(row))
             /\ price' = [price EXCEPT ![i + 1] =
                            [@ EXCEPT !.Signal = "BUY", !.Stop = InitialStop(row),
                                      !.Target = InitialTarget(row),
                                      !.Trail = InitialTrail(InitialStop(row))]]
             /\ in_pos' = TRUE
          ELSE
             /\ price' = [price EXCEPT ![i + 1].Signal = "NO TRADE"]
             /\ UNCHANGED <<in_pos, entry, stop, target, trail>>
       ELSE
          LET t == UpdatedTrail(trail, row)
              label == ExitLabel(row, t, target)
          IN /\ trail' = t
             /\ IF label = "NONE"
                THEN UNCHANGED <<price, in_pos>>
                ELSE /\ price' = [price EXCEPT ![i + 1].Signal = label]
                     /\ in_pos' = FALSE
             /\ UNCHANGED <<entry, stop, target>>
    /\ i' = i + 1
    /\ UNCHANGED <<pc, qqq, account_size, risk_per_trade, shares>>

(***************************************************************************)
(* POSITION SIZING (src/app.py 198-203)                                    *)
(***************************************************************************)
\* a conversion that rounds up
PyInt_Ceil(x) == IF x.n >= 0 THEN (x.n + x.d - 1) \div x.d ELSE 0 - ((0 - x.n) \div x.d)

\* int(x): truncation toward zero
PyInt(x) == IF x.n >= 0 THEN x.n \div x.d ELSE 0 - ((0 - x.n) \div x.d)

\* a sizer that uses the open position's own stop distance
Shares_PositionAware(acct, risk, atr) ==
    LET risk_dollars == Scale(acct, risk) IN
    IF in_pos /\ Gt(Sub(entry, stop), Int2F(0))
    THEN PyInt(Div(risk_dollars, Sub(entry, stop)))
    ELSE IF Gt(atr, Int2F(0))
    THEN PyInt(Div(risk_dollars, Mul(stop_atr, atr)))
    ELSE 0

\* a sizer that divides by the ATR alone
Shares_NoStopMult(acct, risk, atr) ==
    LET risk_dollars == Scale(acct, risk) IN
    IF Gt(atr, Int2F(0))
    THEN PyInt(Div(risk_dollars, atr))
    ELSE 0

Shares(acct, risk, atr) ==
    LET risk_dollars == Scale(acct, risk) IN
    IF Gt(atr, Int2F(0))
    THEN PyInt(Div(risk_dollars, Mul(stop_atr, atr)))
    ELSE 0

\* the sidebar inputs of lines 88-89; they are used by the sizer only
AccountSizes == {100, 50000}
RiskFractions == {Num(25, 10000), Num(100, 10000)}

PositionSizing ==
    /\ pc = "scan"
    /\ i >= Len(price)
    /\ Len(price) > 0
    /\ \E a \in AccountSizes, r \in RiskFractions :
          /\ account_size' = a
          /\ risk_per_trade' = r
          /\ shares' = Shares(a, r, price[Len(price)].ATR)
    /\ pc' = "done"
    /\ UNCHANGED <<price, qqq, i, in_pos, entry, stop, target, trail>>

\* price.iloc[-1] on an empty frame raises IndexError
SizingIndexError ==
    /\ pc = "scan"
    /\ i >= Len(price)
    /\ Len(price) = 0
    /\ pc' = "error"
    /\ UNCHANGED <<price, qqq, i, in_pos, entry, stop, target, trail,
                   account_size, risk_per_trade, shares>>

(***************************************************************************)
(* DATA (src/app.py 113-119): the two downloaded frames.                   *)
(* The traded frames range over every sequence of at most MaxBars bars of  *)
(* BarSet, paired with a benchmark that rises every day; the benchmark     *)
(* frames range over every choice, per date, of a close of BenchCloses or  *)
(* of no bar at all, paired with the traded path TrendPath; the path       *)
(* ReentryPath, with the rising benchmark, adds closes outside BarSet.     *)
(***************************************************************************)
\* <<Close, High, Low>>
BarSet == {<<2, 2, 2>>, <<2, 3, 1>>, <<3, 3, 3>>, <<4, 5, 3>>}
BenchCloses == {1, 2}

PriceFrame(b) ==
    [j \in 1..Len(b) |-> [Date |-> j, Close |-> b[j][1], High |-> b[j][2], Low |-> b[j][3]]]

\* the traded frames of n bars, dated 1..n
PriceFrames(n) == {PriceFrame(b) : b \in [1..n -> BarSet]}

\* a benchmark with a bar on every date 1..n, closing higher every day
RisingBench(n) == [j \in 1..n |-> [Date |-> j, Close |-> j]]

\* the benchmark frames over the dates 1..n: the dates in D have a bar, the
\* others have none
RECURSIVE BenchRows(_, _, _)
BenchRows(D, f, n) ==
    IF n = 0 THEN << >>
    ELSE IF n \in D THEN Append(BenchRows(D, f, n - 1), [Date |-> n, Close |-> f[n]])
    ELSE BenchRows(D, f, n - 1)
BenchFrames(n) ==
    {BenchRows(D, f, n) : D \in SUBSET (1..n), f \in [1..n -> BenchCloses]}

\* a traded path whose entry condition, the trend gate apart, holds on two bars
TrendBars == <<  <<2, 3, 1>>, <<2, 3, 1>>, <<3, 3, 3>>, <<2, 3, 1>>, <<4, 5, 3>>, <<3, 3, 3>>,
                 <<2, 3, 1>>, <<4, 5, 3>> >>
TrendPath(n) == PriceFrame(SubSeq(TrendBars, 1, n))

\* a traded path on which the position is stopped out on a bar where the entry
\* condition holds again
ReentryBars == <<  <<2, 2, 2>>, <<2, 3, 1>>, <<6, 6, 6>>, <<5, 5, 5>>, <<4, 5, 3>>, <<2, 3, 1>>,
                   <<3, 3, 3>>, <<4, 5, 3>> >>
ReentryPath(n) == PriceFrame(SubSeq(ReentryBars, 1, n))

Inputs(n) ==
    ({<<p, RisingBench(n)>> : p \in PriceFrames(n)})
        \cup ({<<TrendPath(n), q>> : q \in BenchFrames(n)})
        \cup {<<ReentryPath(n), RisingBench(n)>>}

Init ==
    /\ pc = "indicators"
    /\ \E n \in 0..MaxBars : \E in \in Inputs(n) :
          /\ price = in[1]
          /\ qqq = in[2]
    /\ i = 0
    /\ in_pos = FALSE
    /\ entry = Int2F(0)
    /\ stop = Int2F(0)
    /\ target = Int2F(0)
    /\ trail = Int2F(0)
    /\ account_size = 50000
    /\ risk_per_trade = Num(100, 10000)
    /\ shares = 0

Next ==
    \/ Indicators
    \/ TrendFilter
    \/ SignalSetup
    \/ ScanBar
    \/ PositionSizing
    \/ SizingIndexError

Spec == Init /\ [][Next]_vars

(***************************************************************************)
(* Properties                                                              *)
(***************************************************************************)
\* the Signal column exists
Started == pc \in {"scan", "done", "error"}
\* row k (1-based) has been through the loop body
Processed(k) == k >= 2 /\ (pc = "done" \/ (pc = "scan" /\ k <= i))
IsExit(l) == l \in {"SELL", "TRAIL STOP", "TAKE PROFIT"}
\* positions open after the labels of rows 1..k: BUYs minus exits
RECURSIVE Depth(_)
Depth(k) ==
    IF k = 0 THEN 0
    ELSE Depth(k - 1) + (IF price[k].Signal = "BUY" THEN 1
                         ELSE IF IsExit(price[k].Signal) THEN 0 - 1 ELSE 0)
\* benchmark observations up to date dt
BenchObs(dt) == Cardinality({m \in 1..Len(qqq) : qqq[m].Date <= dt})
Latest == price[Len(price)]

\* C1: in the label stream BUY and exit labels alternate, starting with a BUY:
\* after every prefix of the stream zero or one position is open, and in_pos
\* says which.
C1_OnePosition ==
    Started =>
        /\ \A k \in 1..Len(price) : Depth(k) \in {0, 1}
        /\ (in_pos <=> Depth(Len(price)) = 1)
C1_Witness ==
    /\ pc = "done"
    /\ \E j, k, m \in 1..Len(price) :
          /\ j < k /\ k < m
          /\ price[j].Signal = "BUY" /\ IsExit(price[k].Signal) /\ price[m].Signal = "BUY"

\* C2: a bar processed with a position open never lowers the trailing stop.
C2_TrailMonotone == [][(pc = "scan" /\ in_pos) => Ge(trail', trail)]_vars
\* a bar has just been processed with the position open (held, or exited on
\* it) whose own close - trail_atr * ATR lies below the trail carried into it
C2_Witness ==
    /\ pc = "scan" /\ i >= 2
    /\ (IsExit(price[i].Signal) \/ (in_pos /\ price[i].Signal = "CASH"))
    /\ Lt(NewTrail(price[i]), trail)

\* C3: on a bar processed with a position open, low <= trail (updated) gives
\* TRAIL STOP whatever else holds; TAKE PROFIT only if the trail was not hit and
\* high >= target; SELL only if neither was hit and the reversal holds.
C3_ExitPriority ==
    [][(pc = "scan" /\ in_pos /\ i < Len(price)) =>
         LET row == price[i + 1]
             lab == price'[i + 1].Signal
             hitTrail == Le(Int2F(row.Low), trail')
             hitTarget == Ge(Int2F(row.High), target)
             reversal == Lt(row.SMA_S, row.SMA_L) \/ Gt(row.RSI, Int2F(rsi_sell))
         IN /\ hitTrail => lab = "TRAIL STOP"
            /\ lab = "TAKE PROFIT" => (~hitTrail /\ hitTarget)
            /\ lab = "SELL" => (~hitTrail /\ ~hitTarget /\ reversal)]_vars
\* a bar that hit the trail and the target at once has just been labelled
C3_Witness ==
    /\ pc = "scan" /\ i >= 2 /\ ~in_pos
    /\ price[i].Signal = "TRAIL STOP"
    /\ Ge(Int2F(price[i].High), target)

\* C4: a bar that starts flat is labelled BUY, and opens a position, exactly
\* when SMA_S > SMA_L, RSI < rsi_buy, Trend_OK is true and ATR_pct <
\* volatility_filter; otherwise it is labelled NO TRADE and stays flat.
C4_EntryIff ==
    [][(pc = "scan" /\ ~in_pos /\ i < Len(price)) =>
         LET row == price[i + 1]
             cond == /\ Gt(row.SMA_S, row.SMA_L)
                     /\ Lt(row.RSI, Int2F(rsi_buy))
                     /\ row.Trend_OK = "True"
                     /\ Lt(row.ATR_pct, Int2F(volatility_filter))
         IN IF cond
            THEN price'[i + 1].Signal = "BUY" /\ in_pos'
            ELSE price'[i + 1].Signal = "NO TRADE" /\ ~in_pos']_vars

\* C5: a BUY bar has every required indicator defined: SMA_S, SMA_L, RSI, ATR,
\* ATR_pct, and a benchmark whose window is full at that date.
C5_NoBuyOnUndefined ==
    Started =>
        \A j \in 1..Len(price) :
            price[j].Signal = "BUY" =>
                /\ IsNum(price[j].SMA_S) /\ IsNum(price[j].SMA_L)
                /\ IsNum(price[j].RSI)
                /\ IsNum(price[j].ATR) /\ IsNum(price[j].ATR_pct)
                /\ BenchObs(price[j].Date) >= TrendWindow

\* C6: on a bar whose date has fewer than TrendWindow benchmark observations
\* (a date without a benchmark bar included) the trend gate is false and the
\* bar is not a BUY.
C6_NoTrendNoBuy ==
    Started =>
        \A j \in 1..Len(price) :
            BenchObs(price[j].Date) < TrendWindow =>
                (price[j].Trend_OK = "False" /\ price[j].Signal # "BUY")

\* C7: a BUY bar records Stop = Close - stop_atr * ATR, Target = Close +
\* target_atr * ATR and Trail = Stop, and right after it the position state is
\* entry = Close with the same stop, target and trail.
C7_EntryLevels ==
    Started =>
        /\ \A j \in 1..Len(price) :
              price[j].Signal = "BUY" =>
                 /\ Eq(price[j].Stop, Sub(Int2F(price[j].Close), Mul(stop_atr, price[j].ATR)))
                 /\ Eq(price[j].Target, Add(Int2F(price[j].Close), Mul(target_atr, price[j].ATR)))
                 /\ Eq(price[j].Trail, price[j].Stop)
        /\ (pc = "scan" /\ i >= 2 /\ price[i].Signal = "BUY") =>
              /\ in_pos
              /\ Eq(entry, Int2F(price[i].Close))
              /\ Eq(stop, price[i].Stop)
              /\ Eq(target, price[i].Target)
              /\ Eq(trail, stop)
C7_Witness ==
    /\ pc = "scan" /\ i >= 2
    /\ price[i].Signal = "BUY"
    /\ Gt(price[i].ATR, Int2F(0))

\* C8: while the position is open, a bar whose low is at or below the initial
\* stop is labelled TRAIL STOP and closes the position.
C8_InitialStopExit ==
    [][(pc = "scan" /\ in_pos /\ i < Len(price) /\ Le(Int2F(price[i + 1].Low), stop)) =>
         (price'[i + 1].Signal = "TRAIL STOP" /\ ~in_pos')]_vars
\* the stop-out came after a held bar
C8_Witness ==
    /\ pc = "scan" /\ i >= 3 /\ ~in_pos
    /\ price[i].Signal = "TRAIL STOP"
    /\ price[i - 1].Signal = "CASH"
    /\ Le(Int2F(price[i].Low), stop)

\* C9 as stated: after a BUY with target T and stop S, the first later bar with
\* high >= T, no bar in between having had low <= S, is labelled TAKE PROFIT.
C9_FirstTargetBar ==
    Started =>
        \A b, k \in 1..Len(price) :
            (/\ b < k /\ Processed(k)
             /\ price[b].Signal = "BUY"
             /\ \A m \in (b + 1)..(k - 1) :
                   /\ Lt(Int2F(price[m].High), price[b].Target)
                   /\ Gt(Int2F(price[m].Low), price[b].Stop)
             /\ Ge(Int2F(price[k].High), price[b].Target))
            => price[k].Signal = "TAKE PROFIT"
\* C9 amended: a bar processed while the position is still open, with high >=
\* target and low above the trailing stop as updated on that bar, is labelled
\* TAKE PROFIT and closes the position.
C9_TargetExit ==
    [][(/\ pc = "scan" /\ in_pos /\ i < Len(price)
        /\ Ge(Int2F(price[i + 1].High), target)
        /\ ~Le(Int2F(price[i + 1].Low), trail')) =>
         (price'[i + 1].Signal = "TAKE PROFIT" /\ ~in_pos')]_vars
\* a TAKE PROFIT after a held bar
C9_Witness ==
    /\ pc = "scan" /\ i >= 3 /\ ~in_pos
    /\ price[i].Signal = "TAKE PROFIT"
    /\ price[i - 1].Signal = "CASH"

\* C10 as stated: with the latest ATR defined, shares = 0 iff ATR = 0.
C10_ZeroIffAtrZero ==
    (pc = "done" /\ IsNum(Latest.ATR)) =>
        (shares = 0 <=> Eq(Latest.ATR, Int2F(0)))
\* C10 amended: shares = 0 iff ATR = 0 or the risk dollars are less than one
\* share's stop distance, account_size * risk_per_trade < stop_atr * ATR.
C10_ZeroShares ==
    (pc = "done" /\ IsNum(Latest.ATR)) =>
        (shares = 0 <=>
            \/ Eq(Latest.ATR, Int2F(0))
            \/ Lt(Scale(account_size, risk_per_trade), Mul(stop_atr, Latest.ATR)))
C10_Witness ==
    /\ pc = "done"
    /\ Eq(Latest.ATR, Int2F(0))
    /\ shares = 0

\* C11: the sizer gives shares = floor(account_size * risk_per_trade /
\* (stop_atr * ATR)) when the latest ATR > 0 and 0 otherwise (ATR zero or
\* undefined); shares is a non-negative integer, and the divisor of the
\* quotient taken is never zero.
C11_FloorSizing ==
    pc = "done" =>
        LET atr == Latest.ATR
            risk_dollars == Scale(account_size, risk_per_trade)
            divisor == Mul(stop_atr, atr)
        IN /\ shares \in Nat
           /\ Gt(atr, Int2F(0)) =>
                 /\ Gt(divisor, Int2F(0))
                 /\ Le(Mul(Int2F(shares), divisor), risk_dollars)
                 /\ Gt(Mul(Int2F(shares + 1), divisor), risk_dollars)
           /\ ~Gt(atr, Int2F(0)) => shares = 0
\* a size that is a proper floor: the quotient is not a whole number
C11_Witness ==
    /\ pc = "done"
    /\ Gt(Latest.ATR, Int2F(0))
    /\ shares > 0
    /\ Lt(Mul(Int2F(shares), Mul(stop_atr, Latest.ATR)),
          Scale(account_size, risk_per_trade))

\* the labels the loop gives the rows k..Len(rows), entered with position flag
\* p, target tg and trail t
RECURSIVE ScanLabels(_, _, _, _, _)
ScanLabels(rows, k, p, tg, t) ==
    IF k > Len(rows) THEN << >>
    ELSE LET row == rows[k] IN
         IF FlatBranch(p) THEN
            IF EntryCondition(row)
            THEN <<"BUY">> \o ScanLabels(rows, k + 1, TRUE, InitialTarget(row),
                                         InitialTrail(InitialStop(row)))
            ELSE <<"NO TRADE">> \o ScanLabels(rows, k + 1, FALSE, tg, t)
         ELSE LET nt == UpdatedTrail(t, row)
                  label == ExitLabel(row, nt, tg)
              IN IF label = "NONE"
                 THEN <<"CASH">> \o ScanLabels(rows, k + 1, TRUE, tg, nt)
                 ELSE <<label>> \o ScanLabels(rows, k + 1, FALSE, tg, nt)
\* the Signal column of a whole run over rows
RunLabels(rows) ==
    IF Len(rows) = 0 THEN << >>
    ELSE <<"CASH">> \o ScanLabels(rows, 2, FALSE, Int2F(0), Int2F(0))
\* the downloaded frame df with its last bar replaced by b = <<Close, High, Low>>
ReplaceLast(df, b) ==
    [j \in 1..Len(df) |->
        IF j = Len(df)
        THEN [Date |-> df[j].Date, Close |-> b[1], High |-> b[2], Low |-> b[3]]
        ELSE [Date |-> df[j].Date, Close |-> df[j].Close, High |-> df[j].High,
              Low |-> df[j].Low]]

\* C12: the labels of the bars before the last do not depend on the last bar:
\* a run over the same series with any other last bar labels them the same.
C12_NoLookAhead ==
    (pc = "done" /\ Len(price) >= 2) =>
        \A b \in BarSet :
        \A alt \in {ReplaceLast(price, b)} :
        \A close \in {ColF(alt, "Close")} :
        \A delta \in {Diff(close)} :
        \A avg_gain \in {Rolling(Gain(delta), rsi_period)} :
        \A avg_loss \in {Rolling(Loss(delta), rsi_period)} :
        \A tr \in {TR_col(alt, Shift(close))} :
        \A atr \in {Rolling(tr, atr_period)} :
        \A sS \in {Rolling(close, short_ma)}, sL \in {Rolling(close, long_ma)},
           rsi \in {RSI_col(avg_gain, avg_loss)}, pct \in {RankPct(atr)} :
        \A rows \in {[j \in 1..Len(alt) |->
                        WithTrend(WithIndicators(alt[j], sS[j], sL[j], rsi[j],
                                                 atr[j], pct[j]),
                                  price[j].Trend_OK)]} :
        \A labels \in {RunLabels(rows)} :
           \A j \in 1..(Len(price) - 1) : labels[j] = price[j].Signal

\* C13: on an empty traded series the program fails before the signal columns
\* are produced and before the scan is entered, and never finishes: it is
\* never at the scan, nor done, with an empty frame.
C13_FailFast == Len(price) = 0 => pc \notin {"scan", "done"}

\* C14: a bar gets one label and makes at most one transition: a bar that
\* starts with a position open is never labelled BUY, and an exit on it leaves
\* the state flat; a bar that starts flat never gets an exit label, and a BUY
\* on it leaves the position open.
C14_OneTransitionPerBar ==
    [][(pc = "scan" /\ i < Len(price)) =>
         LET lab == price'[i + 1].Signal
         IN /\ in_pos => (lab # "BUY" /\ (IsExit(lab) <=> ~in_pos'))
            /\ ~in_pos => (~IsExit(lab) /\ (lab = "BUY" <=> in_pos'))]_vars
\* a bar on which the position exited although every entry condition held
C14_Witness ==
    /\ pc = "scan" /\ i >= 2 /\ ~in_pos
    /\ IsExit(price[i].Signal)
    /\ EntryCondition(price[i])

\* C15: the scan never evaluates the first bar, which keeps the label CASH with
\* the state flat until then; a later bar ends labelled CASH exactly when a
\* position was open at its start and no exit condition fired (low > trail,
\* high < target, no reversal), the position staying open; NO TRADE is given
\* only to a bar that starts and ends flat.
C15_CashMeansHeld ==
    [][(pc = "scan" /\ i < Len(price)) =>
         LET row == price[i + 1]
             lab == price'[i + 1].Signal
             noExit == /\ ~Le(Int2F(row.Low), trail')
                       /\ ~Ge(Int2F(row.High), target)
                       /\ ~(Lt(row.SMA_S, row.SMA_L) \/ Gt(row.RSI, Int2F(rsi_sell)))
         IN /\ i >= 1
            /\ price'[1].Signal = "CASH"
            /\ (i = 1 => ~in_pos)
            /\ lab = "CASH" <=> (in_pos /\ noExit)
            /\ (in_pos /\ noExit) => in_pos'
            /\ lab = "NO TRADE" => (~in_pos /\ ~in_pos')]_vars
\* a bar after the first was held and kept the label CASH, like the first
C15_Witness ==
    /\ pc = "scan" /\ i >= 3 /\ in_pos
    /\ price[1].Signal = "CASH"
    /\ price[i].Signal = "CASH"
    /\ price[i - 1].Signal \in {"BUY", "CASH"}

\* C16: the share quantity is a function of account size, risk fraction, stop
\* multiplier and latest ATR alone: it is the value the sizing rule gives for
\* these four, whether the scan ended flat or long and whatever entry and stop
\* the position recorded.
C16_SizingStateless ==
    pc = "done" =>
        \A a \in AccountSizes, r \in RiskFractions :
            (account_size = a /\ risk_per_trade = r) =>
                shares = IF Gt(Latest.ATR, Int2F(0))
                         THEN PyInt(Div(Scale(a, r), Mul(stop_atr, Latest.ATR)))
                         ELSE 0
\* the scan ended long, with a recorded stop distance that would size differently
C16_Witness ==
    /\ pc = "done" /\ in_pos
    /\ Gt(Latest.ATR, Int2F(0))
    /\ Gt(Sub(entry, stop), Int2F(0))
    /\ shares # PyInt(Div(Scale(account_size, risk_per_trade), Sub(entry, stop)))

\* C17: after every step of the scan each bar's recorded Stop, Target and Trail
\* are defined exactly when its label is BUY, and the step changed no bar other
\* than the one it processed.
C17_LevelsOnlyOnBuy ==
    [][pc = "scan" =>
         /\ \A j \in 1..Len(price) :
               /\ j # i + 1 => price'[j] = price[j]
               /\ IsNum(price'[j].Stop) <=> price'[j].Signal = "BUY"
               /\ IsNum(price'[j].Target) <=> price'[j].Signal = "BUY"
               /\ IsNum(price'[j].Trail) <=> price'[j].Signal = "BUY"
         /\ Len(price') = Len(price)]_vars
\* an exit has just been processed on the bar after a BUY: its levels are
\* undefined and the BUY bar still carries its own
C17_Witness ==
    /\ pc = "scan" /\ i >= 3
    /\ price[i - 1].Signal = "BUY" /\ IsNum(price[i - 1].Trail)
    /\ IsExit(price[i].Signal) /\ IsNaN(price[i].Trail)

\* the script runs on: an iteration of the loop that can run does run, and so
\* does the sizing that follows the loop
FairSpec == Spec /\ WF_vars(ScanBar) /\ WF_vars(PositionSizing)

\* C18: every step of the scan processes the next bar in ascending order (the
\* index grows by one, from 1, and only the bar at the index is written), and
\* a scan entered on a non-empty series ends, having passed the last bar, with
\* every bar labelled.
C18_ScanCompletes ==
    /\ [][(pc = "scan" /\ i < Len(price)) =>
            /\ i >= 1
            /\ i' = i + 1
            /\ \A j \in 1..Len(price) : j # i + 1 => price'[j].Signal = price[j].Signal
            /\ pc' = "scan"]_vars
    /\ (pc = "scan" /\ Len(price) > 0) ~>
          /\ pc = "done"
          /\ i >= Len(price)
          /\ \A j \in 1..Len(price) :
                price[j].Signal \in {"CASH", "NO TRADE", "BUY", "SELL",
                                     "TRAIL STOP", "TAKE PROFIT"}
\* a finished scan over a series of full length with a BUY and an exit
C18_Witness ==
    /\ pc = "done" /\ Len(price) = MaxBars /\ i = MaxBars
    /\ \E j, k \in 2..Len(price) :
          j < k /\ price[j].Signal = "BUY" /\ IsExit(price[k].Signal)

\* C19: a bar processed with a position open whose own close - trail_atr * ATR
\* is at or above its low is labelled TRAIL STOP and closes the position,
\* whatever trail was carried into it and whatever the target and reversal
\* conditions are.
C19_RatchetThenStop ==
    [][(/\ pc = "scan" /\ in_pos /\ i < Len(price)
        /\ Ge(Sub(Int2F(price[i + 1].Close), Mul(trail_atr, price[i + 1].ATR)),
              Int2F(price[i + 1].Low))) =>
         (price'[i + 1].Signal = "TRAIL STOP" /\ ~in_pos')]_vars
\* a bar was stopped by its own ratchet: its low was above the trail carried
\* into it (the larger of the initial stop and the held bar's level)
C19_Witness ==
    /\ pc = "scan" /\ i >= 4 /\ ~in_pos
    /\ price[i - 2].Signal = "BUY" /\ price[i - 1].Signal = "CASH"
    /\ price[i].Signal = "TRAIL STOP"
    /\ Gt(Int2F(price[i].Low), PyMax(stop, NewTrail(price[i - 1])))
    /\ Ge(Sub(Int2F(price[i].Close), Mul(trail_atr, price[i].ATR)), Int2F(price[i].Low))

====
